---------------------------- MODULE Spec2Model ----------------------------
(***************************************************************************)
(* Model of the configuration flow of the Midea dehumidifier (LAN)         *)
(* integration: MideaLocalConfigFlow in config_flow.py.                    *)
(*                                                                         *)
(* A flow object is a record with the fields that __init__ creates.  Each  *)
(* step handler is an operator from a "world" (the flow object, the        *)
(* platform's configuration entries, the scheduled reloads) to the world   *)
(* after the handler returned, so that a handler that calls another one    *)
(* is the composition of the two operators.  Python dictionaries are       *)
(* functions whose DOMAIN is the set of keys present.  List indexes keep   *)
(* Python's numbering (0-based), sequences are 1-based: element i of a     *)
(* list is seq[i + 1].                                                     *)
(***************************************************************************)
EXTENDS Integers, Sequences, FiniteSets, TLC

(***************************************************************************)
(* Bounds of the model.                                                    *)
(***************************************************************************)
MaxAppliances == 2

(***************************************************************************)
(* Values.                                                                 *)
(***************************************************************************)
None == "None"
EmptyDict == [k \in {} |-> k]

IGNORED_IP_ADDRESS == "0.0.0.0"
DEFAULT_USERNAME == "default_user"
DEFAULT_PASSWORD == "default_password"
DEFAULT_APP == "NetHome"
NAME == "Midea Dehumidifier (LAN)"

DEFAULT_APPKEY == "appkey_nethome"
DEFAULT_APP_ID == 1017
SUPPORTED_APPS ==
    [NetHome  |-> [appkey |-> "appkey_nethome", appid |-> 1017],
     MideaAir |-> [appkey |-> "appkey_mideaair", appid |-> 1117]]

Sessions == {"s1", "s2"}

\* Python truthiness of an optional string and of an integer.
Truthy(v) == v # None /\ v # ""
TruthyInt(n) == n # 0

\* dict.get(key): None when the key is missing.
Get(d, k) == IF k \in DOMAIN d THEN d[k] ELSE None

\* dict[key] = value
Put(d, k, v) == (k :> v) @@ d

(***************************************************************************)
(* ipaddress.IPv4Address(text): the text is split at the dots into         *)
(* decimal fields; it is an address when there are four fields, each in    *)
(* 0..255.  Fields gives the split of every address text of the model.     *)
(***************************************************************************)
Fields(text) ==
    CASE text = "0.0.0.0"      -> <<0, 0, 0, 0>>
      [] text = "10.0.0.0"     -> <<10, 0, 0, 0>>
      [] text = "10.0.0.5"     -> <<10, 0, 0, 5>>
      [] text = "10.0.0.6"     -> <<10, 0, 0, 6>>
      [] text = "192.168.1.20" -> <<192, 168, 1, 20>>
      [] text = "10.0.0.256"   -> <<10, 0, 0, 256>>
      [] text = "10.0.5"       -> <<10, 0, 5>>
      [] OTHER                 -> <<>>

IPv4Address(text) ==
    LET f == Fields(text)
    IN  Len(f) = 4 /\ \A i \in 1..4 : f[i] \in 0..255

(***************************************************************************)
(* ipaddress.IPv4Network(text, strict=False): "address/prefix" with a      *)
(* valid address and a prefix length in 0..32; host bits may be set.       *)
(***************************************************************************)
NetworkParts(text) ==
    CASE text = "10.0.0.0/24"    -> [address |-> "10.0.0.0", prefix |-> 24]
      [] text = "10.0.0.5/24"    -> [address |-> "10.0.0.5", prefix |-> 24]
      [] text = "10.0.0.0/33"    -> [address |-> "10.0.0.0", prefix |-> 33]
      [] text = "10.0.0.256/24"  -> [address |-> "10.0.0.256", prefix |-> 24]
      [] OTHER                   -> [address |-> "", prefix |-> 0]

IPv4Network(text) ==
    LET n == NetworkParts(text)
    IN  IPv4Address(n.address) /\ n.prefix \in 0..32

(***************************************************************************)
(* The collaborator (midea_beautiful_dehumidifier) and what the user       *)
(* types.  An appliance is a LanDevice: id, ip, name, type, token, key.    *)
(***************************************************************************)
Appliance(id, ip) ==
    [id |-> id, ip |-> ip, name |-> "Dehumidifier", type |-> "0xA1",
     token |-> "", key |-> ""]

\* Addresses find_appliances reports: none, an empty one, a local address.
DiscoveredIps == {None, "", "192.168.1.20"}

ApplianceLists(maxLen) ==
    UNION {[1..n -> DiscoveredIps] : n \in 0..maxLen}

\* The list find_appliances returns for a choice of addresses; the cloud's
\* appliance ids are distinct.
AppliancesOf(ips) == [i \in DOMAIN ips |-> Appliance(i, ips[i])]

AuthErrors == {[error_code |-> 3101, message |-> "wrong password"]}

\* Outcomes of connect_to_cloud followed by find_appliances.
DiscoveryOutcomes(maxLen) ==
    {[kind |-> "auth_error", error |-> e, appliances |-> <<>>] : e \in AuthErrors}
    \cup {[kind |-> "no_cloud", error |-> EmptyDict, appliances |-> <<>>]}
    \cup {[kind |-> "appliances", error |-> EmptyDict, appliances |-> AppliancesOf(ips)] :
            ips \in ApplianceLists(maxLen)}

\* Outcomes of get_appliance_state: None, or the state of the device found.
ProbeOutcomes ==
    {[found |-> FALSE, token |-> "", key |-> ""],
     [found |-> TRUE, token |-> "cloud_token", key |-> "cloud_key"]}

\* A dictionary with an optional key: option is <<>> (key missing) or <<v>>.
Opt(d, k, option) == IF option = <<>> THEN d ELSE Put(d, k, option[1])

Option(values) == {<<>>} \cup {<<v>> : v \in values}

\* What the user can submit at the three forms.
UserInputs(usernames, passwords, apps, flags) ==
    {Opt([username |-> u, password |-> p, advanced_options |-> a],
         "mobile_app", app) :
       u \in usernames, p \in passwords, app \in apps, a \in flags}

AdvancedInputs(usernames, passwords, appkeys, appids, ranges) ==
    {Opt(Opt(Opt([username |-> u, password |-> p], "appkey", k), "appid", i),
         "network_range", r) :
       u \in usernames, p \in passwords, k \in appkeys, i \in appids,
       r \in ranges}

UnreachableInputs(flags, ips, names, credentials) ==
    {Opt(Opt(Opt([ignore_appliance |-> f, name |-> n], "ip_address", ip),
             "token", c.token), "token_key", c.key) :
       f \in flags, ip \in ips, n \in names, c \in credentials}

(***************************************************************************)
(* The world a handler runs in: the flow object (self), the platform's     *)
(* entries and scheduled reloads, the FlowResult the handler returns, and  *)
(* three observations: the list discovery returned, the appliances the     *)
(* unreachable_appliance stage was presented for, and the collaborator     *)
(* calls made by the current handler.                                      *)
(***************************************************************************)
NewFlow ==
    [cloud |-> None, appliance_idx |-> -1, appliances |-> <<>>,
     appliance_conf |-> <<>>, conf |-> EmptyDict, advanced_options |-> FALSE,
     cause |-> ""]

NoResult == [type |-> "none"]

async_abort(w, reason) ==
    [w EXCEPT !.result = [type |-> "abort", reason |-> reason]]

async_show_form(w, step_id, defaults, errors, description_placeholders) ==
    [w EXCEPT !.result =
        [type |-> "form", step_id |-> step_id, defaults |-> defaults,
         errors |-> errors,
         description_placeholders |-> description_placeholders]]

\* An errors dictionary is {} or {"base": message}.
NoErrors == EmptyDict
BaseError(message) == [base |-> message]

placeholders(self) ==
    [cause |-> IF Truthy(self.cause) THEN self.cause ELSE "",
     integration |-> NAME]

appliance_placeholders(self, appliance) ==
    [cause |-> IF Truthy(self.cause) THEN self.cause ELSE "",
     integration |-> NAME, id |-> appliance.id, name |-> appliance.name]

(***************************************************************************)
(* _async_add_entry: the loop over the appliances, then create or update.  *)
(***************************************************************************)
DeviceConf(appliance) ==
    [ip_address |-> appliance.ip, id |-> appliance.id,
     name |-> appliance.name, type |-> appliance.type,
     token |-> appliance.token, token_key |-> appliance.key]

\* The loop without the test for the ignored address.
RECURSIVE ApplianceConf_KeepIgnored(_, _)
ApplianceConf_KeepIgnored(appliances, acc) ==
    IF appliances = <<>> THEN acc
    ELSE LET appliance == Head(appliances)
         IN  ApplianceConf_KeepIgnored(Tail(appliances),
                 IF Truthy(appliance.ip)
                 THEN Append(acc, DeviceConf(appliance))
                 ELSE acc)

RECURSIVE ApplianceConf(_, _)
ApplianceConf(appliances, acc) ==
    IF appliances = <<>> THEN acc
    ELSE LET appliance == Head(appliances)
         IN  ApplianceConf(Tail(appliances),
                 IF Truthy(appliance.ip) /\ appliance.ip # IGNORED_IP_ADDRESS
                 THEN Append(acc, DeviceConf(appliance))
                 ELSE acc)

\* A lookup that never finds the entry.
EntriesWithUniqueId_NeverFound(entries, unique_id) == {}

\* async_set_unique_id: the positions of the entries with this unique id.
EntriesWithUniqueId(entries, unique_id) ==
    {i \in DOMAIN entries : entries[i].unique_id = unique_id}

async_add_entry(w) ==
    LET appliance_conf == ApplianceConf(w.self.appliances, <<>>)
        unique_id == w.self.conf["username"]
        existing == EntriesWithUniqueId(w.entries, unique_id)
        conf == Put(w.self.conf, "devices", appliance_conf)
        w1 == [w EXCEPT !.self.appliance_conf = appliance_conf,
                        !.self.conf = conf]
    IN  IF existing # {}
        THEN LET e == CHOOSE i \in existing : \A j \in existing : i <= j
             IN  async_abort(
                    [w1 EXCEPT !.entries[e].data = conf,
                               !.reloads = Append(@, w.entries[e].entry_id)],
                    "reauth_successful")
        ELSE [w1 EXCEPT
                !.entries = Append(@, [entry_id |-> Len(w.entries) + 1,
                                      unique_id |-> unique_id,
                                      title |-> "Midea Dehumidifiers",
                                      data |-> conf]),
                !.result = [type |-> "create_entry",
                            title |-> "Midea Dehumidifiers", data |-> conf]]

(***************************************************************************)
(* validate_appliance: the appliance after the call, and the exception     *)
(* raised if any.  probe is the outcome get_appliance_state would have.    *)
(***************************************************************************)
NoException ==
    [kind |-> "none", message |-> "", cause |-> None, error_code |-> 0]

FlowException(message, cause) ==
    [kind |-> "FlowException", message |-> message, cause |-> cause,
     error_code |-> 0]

CloudAuthenticationError(error) ==
    [kind |-> "CloudAuthenticationError", message |-> error.message,
     cause |-> None, error_code |-> error.error_code]

\* LanDevice.update(discovered): the state found at the address is merged
\* into the appliance.
Update(appliance, discovered) ==
    [appliance EXCEPT !.token = discovered.token, !.key = discovered.key]

ProbeCall(ip, probe) ==
    [fn |-> "get_appliance_state", ip |-> ip, found |-> probe.found]

\* The check without the test of the probe's answer.
validate_appliance_ProbeUnchecked(appliance, probe) ==
    IF appliance.ip = IGNORED_IP_ADDRESS \/ appliance.ip = None
    THEN [appliance |-> appliance, raised |-> NoException, calls |-> <<>>]
    ELSE IF ~IPv4Address(appliance.ip)
    THEN [appliance |-> appliance,
          raised |-> FlowException("invalid_ip_address", appliance.ip),
          calls |-> <<>>]
    ELSE [appliance |-> IF probe.found THEN Update(appliance, probe)
                        ELSE appliance,
          raised |-> NoException,
          calls |-> <<ProbeCall(appliance.ip, probe)>>]

validate_appliance(appliance, probe) ==
    IF appliance.ip = IGNORED_IP_ADDRESS \/ appliance.ip = None
    THEN [appliance |-> appliance, raised |-> NoException, calls |-> <<>>]
    ELSE IF ~IPv4Address(appliance.ip)
    THEN [appliance |-> appliance,
          raised |-> FlowException("invalid_ip_address", appliance.ip),
          calls |-> <<>>]
    ELSE IF probe.found
    THEN [appliance |-> Update(appliance, probe), raised |-> NoException,
          calls |-> <<ProbeCall(appliance.ip, probe)>>]
    ELSE [appliance |-> appliance,
          raised |-> FlowException("not_discovered", appliance.ip),
          calls |-> <<ProbeCall(appliance.ip, probe)>>]

(***************************************************************************)
(* async_step_unreachable_appliance.                                       *)
(***************************************************************************)
UnreachableForm(w, appliance, errors) ==
    async_show_form(w, "unreachable_appliance",
        [ignore_appliance |-> FALSE, ip_address |-> IGNORED_IP_ADDRESS,
         name |-> appliance.name],
        errors, appliance_placeholders(w.self, appliance))

\* The form shown after saving what is known so far.
unreachable_appliance_show_Saving(w) ==
    LET appliance == w.self.appliances[w.self.appliance_idx + 1]
        w1 == [w EXCEPT !.self.cause = "",
                        !.shown = Append(@, appliance.id),
                        !.entries = async_add_entry(w).entries]
    IN  UnreachableForm(w1, appliance, NoErrors)

\* Called without user input: the form for the appliance under the cursor.
unreachable_appliance_show(w) ==
    LET appliance == w.self.appliances[w.self.appliance_idx + 1]
        w1 == [w EXCEPT !.self.cause = "",
                        !.shown = Append(@, appliance.id)]
    IN  UnreachableForm(w1, appliance, NoErrors)

\* The while loop looking for the next unreachable appliance: the first
\* index from idx on whose appliance has ip None, or the length of the list.
RECURSIVE NextUnreachable(_, _)
NextUnreachable(appliances, idx) ==
    IF idx < Len(appliances)
    THEN IF appliances[idx + 1].ip = None
         THEN idx
         ELSE NextUnreachable(appliances, idx + 1)
    ELSE idx

\* The assignments without the replacement of a blank address.
ApplyInput_BlankKept(appliance, user_input) ==
    [appliance EXCEPT
        !.ip = Get(user_input, "ip_address"),
        !.name = user_input["name"],
        !.token = IF "token" \in DOMAIN user_input
                  THEN user_input["token"] ELSE "",
        !.key = IF "token_key" \in DOMAIN user_input
                THEN user_input["token_key"] ELSE ""]

\* The assignments from the user's input to the appliance.
ApplyInput(appliance, user_input) ==
    LET ip == Get(user_input, "ip_address")
    IN  [appliance EXCEPT
            !.ip = IF ~Truthy(ip) THEN IGNORED_IP_ADDRESS ELSE ip,
            !.name = user_input["name"],
            !.token = IF "token" \in DOMAIN user_input
                      THEN user_input["token"] ELSE "",
            !.key = IF "token_key" \in DOMAIN user_input
                    THEN user_input["token_key"] ELSE ""]

\* The handler going on to the next appliance whatever the validation says.
unreachable_appliance_submit_ErrorIgnored(w, user_input, probe) ==
    LET idx == w.self.appliance_idx
        applied == ApplyInput(w.self.appliances[idx + 1], user_input)
        v == validate_appliance(applied, probe)
        w1 == [w EXCEPT !.self.cause = "",
                        !.self.appliances[idx + 1] = v.appliance,
                        !.calls = @ \o v.calls]
        next == NextUnreachable(w1.self.appliances, idx + 1)
        w2 == [w1 EXCEPT !.self.appliance_idx = next]
    IN  IF next < Len(w1.self.appliances)
        THEN unreachable_appliance_show(w2)
        ELSE async_add_entry(w2)

\* Called with user input.
unreachable_appliance_submit(w, user_input, probe) ==
    LET idx == w.self.appliance_idx
        applied == ApplyInput(w.self.appliances[idx + 1], user_input)
        v == validate_appliance(applied, probe)
        w1 == [w EXCEPT !.self.cause = "",
                        !.self.appliances[idx + 1] = v.appliance,
                        !.calls = @ \o v.calls]
    IN  IF v.raised.kind = "none"
        THEN LET next == NextUnreachable(w1.self.appliances, idx + 1)
                 w2 == [w1 EXCEPT !.self.appliance_idx = next]
             IN  IF next < Len(w1.self.appliances)
                 THEN unreachable_appliance_show(w2)
                 ELSE async_add_entry(w2)
        ELSE UnreachableForm([w1 EXCEPT !.self.cause = v.raised.cause],
                             v.appliance, BaseError(v.raised.message))

(***************************************************************************)
(* connect_and_discover: connect_to_cloud with the credentials of _conf,   *)
(* then find_appliances on the networks of _conf.  outcome is what the     *)
(* collaborator answers.                                                   *)
(***************************************************************************)
Networks(conf) ==
    LET networks == Get(conf, "network_range")
    IN  IF Truthy(networks) THEN <<networks>> ELSE <<>>

ConnectCall(conf, outcome) ==
    [fn |-> "connect_to_cloud", account |-> conf["username"],
     password |-> conf["password"], appkey |-> conf["appkey"],
     appid |-> conf["appid"], kind |-> outcome.kind,
     error |-> outcome.error]

FindCall(conf) == [fn |-> "find_appliances", networks |-> Networks(conf)]

connect_and_discover(w, outcome) ==
    LET connect == ConnectCall(w.self.conf, outcome)
    IN  CASE outcome.kind = "auth_error" ->
               [w |-> [w EXCEPT !.calls = Append(@, connect)],
                raised |-> CloudAuthenticationError(outcome.error)]
          [] outcome.kind = "no_cloud" ->
               [w |-> [w EXCEPT !.calls = Append(@, connect)],
                raised |-> FlowException("no_cloud", None)]
          [] OTHER ->
               [w |-> [w EXCEPT !.calls = @ \o <<connect, FindCall(w.self.conf)>>,
                                !.found = outcome.appliances,
                                !.self.appliances = outcome.appliances,
                                !.self.cloud = "cloud"],
                raised |-> NoException]

(***************************************************************************)
(* async_step_advanced_options called without user input.                  *)
(***************************************************************************)
AdvancedForm(w, username, password, appkey, appid, network_range, errors) ==
    async_show_form(w, "advanced_options",
        [username |-> username, password |-> password, appkey |-> appkey,
         appid |-> appid, network_range |-> network_range],
        errors, placeholders(w.self))

advanced_options_show(w) ==
    LET w1 == [w EXCEPT !.self.cause = "", !.self.advanced_options = TRUE]
        username == IF Truthy(Get(w.self.conf, "username"))
                    THEN w.self.conf["username"] ELSE DEFAULT_USERNAME
        password == IF Truthy(Get(w.self.conf, "password"))
                    THEN w.self.conf["password"] ELSE DEFAULT_PASSWORD
    IN  AdvancedForm(w1, username, password, DEFAULT_APPKEY, DEFAULT_APP_ID,
                     "", NoErrors)

(***************************************************************************)
(* _validate_discovery_phase.                                              *)
(***************************************************************************)
\* The for loop without the test of the address.
FirstWithoutIp_AddressUntested(appliances, i) ==
    IF i >= Len(appliances) THEN -1 ELSE i

\* The for loop over the appliances: the first index whose appliance has no
\* (or an empty) ip, or -1.
RECURSIVE FirstWithoutIp(_, _)
FirstWithoutIp(appliances, i) ==
    IF i >= Len(appliances) THEN -1
    ELSE IF ~Truthy(appliances[i + 1].ip) THEN i
    ELSE FirstWithoutIp(appliances, i + 1)

\* From "self._appliance_idx = -1" to the end.
discovery(w, outcome) ==
    LET d == connect_and_discover([w EXCEPT !.self.appliance_idx = -1], outcome)
    IN  IF d.raised.kind # "none" THEN d
        ELSE LET idx == FirstWithoutIp(d.w.self.appliances, 0)
                 w1 == [d.w EXCEPT !.self.appliance_idx = idx]
             IN  [w |-> IF idx >= 0 THEN unreachable_appliance_show(w1)
                        ELSE async_add_entry(w1),
                  raised |-> NoException]

\* The branch without the check of the network range.
validate_advanced_RangeUnchecked(w, user_input, outcome) ==
    IF "appkey" \notin DOMAIN user_input \/ "appid" \notin DOMAIN user_input
    THEN [w |-> w, raised |-> FlowException("invalid_appkey", None)]
    ELSE LET conf1 == Put(Put(w.self.conf, "appkey", user_input["appkey"]),
                          "appid", user_input["appid"])
             network_range == Get(user_input, "network_range")
         IN  IF Truthy(network_range)
             THEN discovery(
                    [w EXCEPT !.self.conf =
                        Put(conf1, "network_range", network_range)],
                    outcome)
             ELSE discovery([w EXCEPT !.self.conf = conf1], outcome)

\* The branch taking the username and the password of the page as well.
validate_advanced_CredentialsTaken(w, user_input, outcome) ==
    IF "appkey" \notin DOMAIN user_input \/ "appid" \notin DOMAIN user_input
    THEN [w |-> w, raised |-> FlowException("invalid_appkey", None)]
    ELSE LET conf0 == Put(Put(w.self.conf, "username", user_input["username"]),
                          "password", user_input["password"])
             conf1 == Put(Put(conf0, "appkey", user_input["appkey"]),
                          "appid", user_input["appid"])
             network_range == Get(user_input, "network_range")
         IN  IF Truthy(network_range)
             THEN IF ~IPv4Network(network_range)
                  THEN [w |-> [w EXCEPT !.self.conf = conf1],
                        raised |-> FlowException("invalid_ip_range", network_range)]
                  ELSE discovery(
                         [w EXCEPT !.self.conf =
                             Put(conf1, "network_range", network_range)],
                         outcome)
             ELSE discovery([w EXCEPT !.self.conf = conf1], outcome)

\* The branch taken on the advanced options page.
validate_advanced(w, user_input, outcome) ==
    IF "appkey" \notin DOMAIN user_input \/ "appid" \notin DOMAIN user_input
    THEN [w |-> w, raised |-> FlowException("invalid_appkey", None)]
    ELSE LET conf1 == Put(Put(w.self.conf, "appkey", user_input["appkey"]),
                          "appid", user_input["appid"])
             network_range == Get(user_input, "network_range")
         IN  IF Truthy(network_range)
             THEN IF ~IPv4Network(network_range)
                  THEN [w |-> [w EXCEPT !.self.conf = conf1],
                        raised |-> FlowException("invalid_ip_range", network_range)]
                  ELSE discovery(
                         [w EXCEPT !.self.conf =
                             Put(conf1, "network_range", network_range)],
                         outcome)
             ELSE discovery([w EXCEPT !.self.conf = conf1], outcome)

\* The branch with the default appkey and appid for every app.
validate_user_DefaultKeys(w, user_input, outcome) ==
    LET app == Get(user_input, "mobile_app")
    IN  IF Truthy(app) /\ app \notin DOMAIN SUPPORTED_APPS
        THEN [w |-> [w EXCEPT !.self.conf = user_input],
              raised |-> FlowException("invalid_app_name", app)]
        ELSE LET w1 == [w EXCEPT !.self.conf =
                          Put(Put(user_input, "appkey", DEFAULT_APPKEY),
                              "appid", DEFAULT_APP_ID)]
             IN  IF user_input["advanced_options"]
                 THEN [w |-> advanced_options_show(w1), raised |-> NoException]
                 ELSE discovery(w1, outcome)

\* The branch taken on the user page; _conf becomes the user's input.
validate_user(w, user_input, outcome) ==
    LET app == Get(user_input, "mobile_app")
    IN  IF Truthy(app) /\ app \notin DOMAIN SUPPORTED_APPS
        THEN [w |-> [w EXCEPT !.self.conf = user_input],
              raised |-> FlowException("invalid_app_name", app)]
        ELSE LET appkey == IF Truthy(app) THEN SUPPORTED_APPS[app].appkey
                           ELSE DEFAULT_APPKEY
                 appid == IF Truthy(app) THEN SUPPORTED_APPS[app].appid
                          ELSE DEFAULT_APP_ID
                 w1 == [w EXCEPT !.self.conf =
                          Put(Put(user_input, "appkey", appkey), "appid", appid)]
             IN  IF user_input["advanced_options"]
                 THEN [w |-> advanced_options_show(w1), raised |-> NoException]
                 ELSE discovery(w1, outcome)

validate_discovery_phase(w, user_input, outcome) ==
    IF w.self.advanced_options
    THEN validate_advanced(w, user_input, outcome)
    ELSE validate_user(w, user_input, outcome)

\* The two except clauses of the user and advanced options steps: the cause
\* and the error message shown for an exception.
\* The cause without the collaborator's error code.
CauseOf_MessageOnly(ex) ==
    IF ex.kind = "CloudAuthenticationError" THEN ex.message ELSE ex.cause

CauseOf(ex) ==
    IF ex.kind = "CloudAuthenticationError"
    THEN ToString(ex.error_code) \o " - " \o ex.message
    ELSE ex.cause

ErrorOf(ex) ==
    IF ex.kind = "CloudAuthenticationError" THEN "invalid_auth" ELSE ex.message

(***************************************************************************)
(* async_step_user.                                                        *)
(***************************************************************************)
UserForm(w, username, password, app, errors) ==
    async_show_form(w, "user",
        [username |-> username, password |-> password, mobile_app |-> app,
         advanced_options |-> FALSE],
        errors, placeholders(w.self))

GetOr(d, k, default) == IF Truthy(Get(d, k)) THEN d[k] ELSE default

user_show(w) ==
    LET w1 == [w EXCEPT !.self.advanced_options = FALSE]
    IN  IF w.entries # <<>>
        THEN async_abort(w1, "single_instance_allowed")
        ELSE UserForm([w1 EXCEPT !.self.cause = ""], DEFAULT_USERNAME,
                      DEFAULT_PASSWORD, DEFAULT_APP, NoErrors)

\* The handler without the test for an existing entry.
user_submit_Unguarded(w, user_input, outcome) ==
    LET w1 == [w EXCEPT !.self.advanced_options = FALSE]
        v == validate_discovery_phase([w1 EXCEPT !.self.cause = ""],
                                      user_input, outcome)
    IN  IF v.raised.kind = "none" THEN v.w
        ELSE UserForm([v.w EXCEPT !.self.cause = CauseOf(v.raised)],
                      GetOr(user_input, "username", DEFAULT_USERNAME),
                      GetOr(user_input, "password", DEFAULT_PASSWORD),
                      GetOr(user_input, "mobile_app", DEFAULT_APP),
                      BaseError(ErrorOf(v.raised)))

user_submit(w, user_input, outcome) ==
    LET w1 == [w EXCEPT !.self.advanced_options = FALSE]
    IN  IF w.entries # <<>>
        THEN async_abort(w1, "single_instance_allowed")
        ELSE LET v == validate_discovery_phase([w1 EXCEPT !.self.cause = ""],
                                               user_input, outcome)
             IN  IF v.raised.kind = "none" THEN v.w
                 ELSE UserForm([v.w EXCEPT !.self.cause = CauseOf(v.raised)],
                               GetOr(user_input, "username", DEFAULT_USERNAME),
                               GetOr(user_input, "password", DEFAULT_PASSWORD),
                               GetOr(user_input, "mobile_app", DEFAULT_APP),
                               BaseError(ErrorOf(v.raised)))

(***************************************************************************)
(* async_step_advanced_options called with user input.                     *)
(***************************************************************************)
\* The handler going back to the user form on an error.
advanced_options_submit_BackToUser(w, user_input, outcome) ==
    LET w1 == [w EXCEPT !.self.cause = "", !.self.advanced_options = TRUE]
        username == GetOr(user_input, "username",
                          GetOr(w.self.conf, "username", DEFAULT_USERNAME))
        password == GetOr(user_input, "password",
                          GetOr(w.self.conf, "password", DEFAULT_PASSWORD))
        appkey == GetOr(user_input, "appkey", DEFAULT_APPKEY)
        appid == IF "appid" \in DOMAIN user_input /\ TruthyInt(user_input["appid"])
                 THEN user_input["appid"] ELSE DEFAULT_APP_ID
        network_range == GetOr(user_input, "network_range", "")
        v == validate_discovery_phase(w1, user_input, outcome)
    IN  IF v.raised.kind = "none" THEN v.w
        ELSE UserForm([v.w EXCEPT !.self.cause = CauseOf(v.raised)],
                      username, password, DEFAULT_APP,
                      BaseError(ErrorOf(v.raised)))

advanced_options_submit(w, user_input, outcome) ==
    LET w1 == [w EXCEPT !.self.cause = "", !.self.advanced_options = TRUE]
        username == GetOr(user_input, "username",
                          GetOr(w.self.conf, "username", DEFAULT_USERNAME))
        password == GetOr(user_input, "password",
                          GetOr(w.self.conf, "password", DEFAULT_PASSWORD))
        appkey == GetOr(user_input, "appkey", DEFAULT_APPKEY)
        appid == IF "appid" \in DOMAIN user_input /\ TruthyInt(user_input["appid"])
                 THEN user_input["appid"] ELSE DEFAULT_APP_ID
        network_range == GetOr(user_input, "network_range", "")
        v == validate_discovery_phase(w1, user_input, outcome)
    IN  IF v.raised.kind = "none" THEN v.w
        ELSE AdvancedForm([v.w EXCEPT !.self.cause = CauseOf(v.raised)],
                          username, password, appkey, appid, network_range,
                          BaseError(ErrorOf(v.raised)))

(***************************************************************************)
(* DehumidifierEntity in humidifier.py.  The entity is a record of its     *)
(* list of modes, the state of its appliance (a dictionary of the          *)
(* attributes the appliance reports) and the changes apply has staged for  *)
(* the device.                                                             *)
(***************************************************************************)
MODE_SET == "Set"
MODE_DRY == "Dry"
MODE_SMART == "Smart"
MODE_CONTINOUS == "Continuous"
MODE_PURIFIER == "Purifier"
MODE_ANTIMOULD == "Antimould"
MODE_FAN == "Fan"

\* dict.get(key, default) and getattr(object, name, default).
GetDefault(d, k, default) == IF k \in DOMAIN d THEN d[k] ELSE default

\* __init__: the list of modes for the supports mapping of the appliance.
\* The default of supports.get("mode", "0") is a string, which equals none
\* of 1..4; 0 stands for it.
AvailableModes(supports) ==
    LET more_modes == GetDefault(supports, "mode", 0)
    IN  <<MODE_SET>>
        \o (IF TruthyInt(GetDefault(supports, "auto", 0))
            THEN <<MODE_SMART>> ELSE <<>>)
        \o <<MODE_CONTINOUS>>
        \o (IF TruthyInt(GetDefault(supports, "dry_clothes", 0))
            THEN <<MODE_DRY>> ELSE <<>>)
        \o (CASE more_modes = 1 -> <<MODE_PURIFIER>>
              [] more_modes = 2 -> <<MODE_ANTIMOULD>>
              [] more_modes = 3 -> <<MODE_PURIFIER, MODE_ANTIMOULD>>
              [] more_modes = 4 -> <<MODE_FAN>>
              [] OTHER -> <<>>)

DehumidifierEntity(state) ==
    [modes |-> AvailableModes(GetDefault(state, "supports", EmptyDict)),
     state |-> state, staged |-> EmptyDict]

available_modes(self) == self.modes

\* The chain of tests of the mode property, with Smart and Continuous
\* exchanged.
ModeLabel_Exchanged(curr_mode) ==
    CASE curr_mode = 1 -> MODE_SET
      [] curr_mode = 2 -> MODE_SMART
      [] curr_mode = 3 -> MODE_CONTINOUS
      [] curr_mode = 4 -> MODE_DRY
      [] curr_mode = 6 -> MODE_PURIFIER
      [] curr_mode = 7 -> MODE_ANTIMOULD
      [] OTHER -> MODE_SET

\* The chain of tests of the mode property.
ModeLabel(curr_mode) ==
    CASE curr_mode = 1 -> MODE_SET
      [] curr_mode = 2 -> MODE_CONTINOUS
      [] curr_mode = 3 -> MODE_SMART
      [] curr_mode = 4 -> MODE_DRY
      [] curr_mode = 6 -> MODE_PURIFIER
      [] curr_mode = 7 -> MODE_ANTIMOULD
      [] OTHER -> MODE_SET

mode(self) == ModeLabel(GetDefault(self.state, "mode", 1))

\* The chain of tests of set_mode.
ModeNumber(label) ==
    CASE label = MODE_SET -> 1
      [] label = MODE_CONTINOUS -> 2
      [] label = MODE_SMART -> 3
      [] label = MODE_DRY -> 4
      [] label = MODE_PURIFIER -> 6
      [] label = MODE_ANTIMOULD -> 7
      [] OTHER -> 1

\* ApplianceEntity.apply: the change is staged for the device.
ApplyCall(attribute, value) ==
    [fn |-> "apply", attribute |-> attribute, value |-> value]

apply(self, attribute, value) ==
    [self EXCEPT !.staged = Put(@, attribute, value)]

set_mode(self, label) == apply(self, "mode", ModeNumber(label))

\* The staged changes have reached the device, which reports them.
Pushed(self) ==
    [self EXCEPT !.state = self.staged @@ self.state, !.staged = EmptyDict]

(***************************************************************************)
(* The state: the flow objects and the FlowResult last returned to each    *)
(* session (the form the session waits at, or its terminal outcome), the   *)
(* platform's configuration entries and scheduled reloads, the list        *)
(* discovery returned to each session, the appliances each session was     *)
(* shown the unreachable_appliance stage for, and the last handler call    *)
(* with its input and collaborator calls; and the dehumidifier entity of   *)
(* an appliance.                                                           *)
(***************************************************************************)
VARIABLES flows, results, found, shown, entries, reloads, event, entity

vars == <<flows, results, found, shown, entries, reloads, event, entity>>

\* An entry an earlier, completed run of the flow has left.
ExistingEntry ==
    [entry_id |-> 1, unique_id |-> "u1", title |-> "Midea Dehumidifiers",
     data |-> [username |-> "u1", password |-> "p0", mobile_app |-> "NetHome",
               advanced_options |-> FALSE, appkey |-> "appkey_nethome",
               appid |-> 1017, devices |-> <<>>]]

NoEvent == [session |-> "none", op |-> "none", input |-> EmptyDict, calls |-> <<>>]

\* No entity is set up while the flow runs.
NoEntity == [modes |-> <<>>, state |-> EmptyDict, staged |-> EmptyDict]

Init ==
    /\ flows = [s \in Sessions |-> NewFlow]
    /\ results = [s \in Sessions |-> NoResult]
    /\ found = [s \in Sessions |-> <<>>]
    /\ shown = [s \in Sessions |-> <<>>]
    /\ entries \in {<<>>, <<ExistingEntry>>}
    /\ reloads = <<>>
    /\ event = NoEvent
    /\ entity = NoEntity

World(s) ==
    [self |-> flows[s], result |-> results[s], found |-> found[s],
     shown |-> shown[s],
     entries |-> entries, reloads |-> reloads, calls |-> <<>>]

\* The step the flow manager calls next for the session.
CurStep(s) ==
    IF results[s].type = "form" THEN results[s].step_id ELSE results[s].type

Return(s, op, input, w) ==
    /\ flows' = [flows EXCEPT ![s] = w.self]
    /\ results' = [results EXCEPT ![s] = w.result]
    /\ found' = [found EXCEPT ![s] = w.found]
    /\ shown' = [shown EXCEPT ![s] = w.shown]
    /\ entries' = w.entries
    /\ reloads' = w.reloads
    /\ event' = [session |-> s, op |-> op, input |-> input, calls |-> w.calls]
    /\ entity' = entity

\* The user opens the wizard: async_step_user without input.
Start(s) ==
    /\ CurStep(s) = "none"
    /\ Return(s, "start", EmptyDict, user_show(World(s)))

\* The collaborator is asked only by the handlers that reach it: NotCalled
\* stands for its answer in a step that does not call it.
NotCalled == [kind |-> "not_called", error |-> EmptyDict, appliances |-> <<>>]
NotProbed == [found |-> FALSE, token |-> "not_probed", key |-> ""]

Answered(w, answer, notAsked) == (w.calls = <<>>) <=> (answer = notAsked)

SubmitUser(s, user_input, outcome) ==
    /\ CurStep(s) = "user"
    /\ LET w == user_submit(World(s), user_input, outcome)
       IN  /\ Answered(w, outcome, NotCalled)
           /\ Return(s, "user", user_input, w)

SubmitAdvanced(s, user_input, outcome) ==
    /\ CurStep(s) = "advanced_options"
    /\ LET w == advanced_options_submit(World(s), user_input, outcome)
       IN  /\ Answered(w, outcome, NotCalled)
           /\ Return(s, "advanced_options", user_input, w)

SubmitUnreachable(s, user_input, probe) ==
    /\ CurStep(s) = "unreachable_appliance"
    /\ LET w == unreachable_appliance_submit(World(s), user_input, probe)
       IN  /\ Answered(w, probe, NotProbed)
           /\ Return(s, "unreachable_appliance", user_input, w)

\* The user closes the wizard at a form: the flow manager drops the flow.
Abandon(s) ==
    /\ results[s].type = "form"
    /\ results' = [results EXCEPT ![s] = [type |-> "abandoned"]]
    /\ event' = [session |-> s, op |-> "abandon", input |-> EmptyDict, calls |-> <<>>]
    /\ UNCHANGED <<flows, found, shown, entries, reloads, entity>>

Usernames == {"u1", "u2"}
Passwords == {"p1"}
Apps == Option({"NetHome", "MideaAir", "Bogus"})
AdvancedUsernames == {"u3"}
AdvancedPasswords == {"p3"}
AppKeys == Option({"custom_key"})
AppIds == Option({9999})
Ranges == Option({"", "10.0.0.5/24", "10.0.0.0/33"})
Ips == Option({"", "0.0.0.0", "10.0.0.5", "10.0.0.256"})
Names == {"Cellar"}
Credentials == {[token |-> <<"tok">>, key |-> <<>>]}

\* One session, every input.
Next ==
    \E s \in {"s1"} :
        \/ Start(s)
        \/ \E ui \in UserInputs(Usernames, Passwords, Apps, BOOLEAN),
              o \in DiscoveryOutcomes(MaxAppliances) \cup {NotCalled} :
                SubmitUser(s, ui, o)
        \/ \E ui \in AdvancedInputs(AdvancedUsernames, AdvancedPasswords,
                                    AppKeys, AppIds, Ranges),
              o \in DiscoveryOutcomes(MaxAppliances) \cup {NotCalled} :
                SubmitAdvanced(s, ui, o)
        \/ \E ui \in UnreachableInputs(BOOLEAN, Ips, Names, Credentials),
              p \in ProbeOutcomes \cup {NotProbed} :
                SubmitUnreachable(s, ui, p)
        \/ Abandon(s)

Spec == Init /\ [][Next]_vars

\* Two sessions interleaved, each with a few inputs.
TwoUserInputs == UserInputs(Usernames, {"p1"}, {<<"NetHome">>}, BOOLEAN)
TwoAdvancedInputs ==
    AdvancedInputs(AdvancedUsernames, AdvancedPasswords, {<<"custom_key">>},
                   {<<9999>>}, {<<"">>})
TwoUnreachableInputs ==
    UnreachableInputs({FALSE}, {<<"">>, <<"10.0.0.5">>}, Names,
                      {[token |-> <<>>, key |-> <<>>]})

NextTwo ==
    \E s \in Sessions :
        \/ Start(s)
        \/ \E ui \in TwoUserInputs, o \in DiscoveryOutcomes(1) \cup {NotCalled} :
                SubmitUser(s, ui, o)
        \/ \E ui \in TwoAdvancedInputs, o \in DiscoveryOutcomes(1) \cup {NotCalled} :
                SubmitAdvanced(s, ui, o)
        \/ \E ui \in TwoUnreachableInputs, p \in ProbeOutcomes \cup {NotProbed} :
                SubmitUnreachable(s, ui, p)
        \/ Abandon(s)

SpecTwo == Init /\ [][NextTwo]_vars

(***************************************************************************)
(* The entity of one appliance: it is constructed for the state the        *)
(* appliance reports, then set_mode is called and the device takes the     *)
(* staged changes over.  No flow runs.                                     *)
(***************************************************************************)
MaxMode == 8

\* The values of the mode attribute; <<>> is an appliance without it.
ModeValues == Option(0..MaxMode)

\* The supports mapping: auto, dry_clothes and mode, each of which may be
\* missing; <<>> is an appliance state without the mapping.
SupportsValues ==
    {<<>>} \cup
    {<<Opt(Opt(Opt(EmptyDict, "auto", a), "dry_clothes", d), "mode", m)>> :
        a \in Option({0, 1}), d \in Option({0, 1}), m \in Option(0..4)}

ApplianceStates ==
    {Opt(Opt(EmptyDict, "supports", s), "mode", m) :
        s \in SupportsValues, m \in ModeValues}

\* What set_mode can be called with: the labels of the module and another.
ModeLabels ==
    {MODE_SET, MODE_DRY, MODE_SMART, MODE_CONTINOUS, MODE_PURIFIER,
     MODE_ANTIMOULD, MODE_FAN, "Turbo"}

InitEntity ==
    /\ flows = [s \in Sessions |-> NewFlow]
    /\ results = [s \in Sessions |-> NoResult]
    /\ found = [s \in Sessions |-> <<>>]
    /\ shown = [s \in Sessions |-> <<>>]
    /\ entries = <<>>
    /\ reloads = <<>>
    /\ event = NoEvent
    /\ entity \in {DehumidifierEntity(state) : state \in ApplianceStates}

SetMode(label) ==
    /\ entity' = set_mode(entity, label)
    /\ event' = [session |-> "none", op |-> "set_mode",
                 input |-> [mode |-> label],
                 calls |-> <<ApplyCall("mode", ModeNumber(label))>>]
    /\ UNCHANGED <<flows, results, found, shown, entries, reloads>>

Push ==
    /\ entity.staged # EmptyDict
    /\ entity' = Pushed(entity)
    /\ event' = [session |-> "none", op |-> "push", input |-> EmptyDict,
                 calls |-> <<>>]
    /\ UNCHANGED <<flows, results, found, shown, entries, reloads>>

NextEntity ==
    \/ \E label \in ModeLabels : SetMode(label)
    \/ Push

SpecEntity == InitEntity /\ [][NextEntity]_vars

(***************************************************************************)
(* Vocabulary of the properties.                                           *)
(***************************************************************************)
\* The result of a flow that has run _async_add_entry.
ReconciledResult(r) ==
    \/ r.type = "create_entry"
    \/ r.type = "abort" /\ r.reason = "reauth_successful"

Reconciled(s) == ReconciledResult(results[s])

Aborted(r, reason) == r.type = "abort" /\ r.reason = reason

\* A form that carries an error.
ErrorResult(r) == r.type = "form" /\ r.errors # NoErrors

ErrorForm(s) == ErrorResult(results[s])

Submissions == {"user", "advanced_options", "unreachable_appliance"}

RECURSIVE IdsWithoutAddress(_)
IdsWithoutAddress(appliances) ==
    IF appliances = <<>> THEN <<>>
    ELSE (IF Head(appliances).ip \in {None, ""} THEN <<Head(appliances).id>>
          ELSE <<>>) \o IdsWithoutAddress(Tail(appliances))

IsPrefix(p, q) == Len(p) <= Len(q) /\ \A i \in 1..Len(p) : p[i] = q[i]

(***************************************************************************)
(* C1.  The unreachable_appliance stage is presented for exactly the       *)
(* appliances discovery returned without an address, each once and in      *)
(* list order, before the entry is reconciled; never when there is none.   *)
(* The code presents it only for the first of them and, after it, for the  *)
(* appliances whose address is None: one whose address is the empty        *)
(* string is passed over.                                                  *)
(***************************************************************************)
C1_EveryUnaddressedPresented ==
    \A s \in Sessions :
        /\ IsPrefix(shown[s], IdsWithoutAddress(found[s]))
        /\ Reconciled(s) => shown[s] = IdsWithoutAddress(found[s])

(***************************************************************************)
(* C2.  The device list of a configuration the flow creates or updates     *)
(* holds exactly the appliances whose address is resolved and not the      *)
(* ignored address, in list order, each with its own address, name, type,  *)
(* token and key.                                                          *)
(***************************************************************************)
Resolved(appliance) == appliance.ip \notin {None, "", IGNORED_IP_ADDRESS}

DeviceOf(device, appliance) ==
    /\ device.id = appliance.id
    /\ device.ip_address = appliance.ip
    /\ device.name = appliance.name
    /\ device.type = appliance.type
    /\ device.token = appliance.token
    /\ device.token_key = appliance.key

C2_DevicesAreResolvedAppliances ==
    \A s \in Sessions :
        Reconciled(s) =>
            LET appliances == flows[s].appliances
                devices == flows[s].conf["devices"]
                kept == {i \in 1..Len(appliances) : Resolved(appliances[i])}
            IN  /\ Len(devices) = Cardinality(kept)
                /\ \A j \in 1..Len(devices) :
                      \E i \in kept : DeviceOf(devices[j], appliances[i])
                /\ \A j, k \in 1..Len(devices) :
                      j < k => devices[j].id < devices[k].id
                /\ results[s].type = "create_entry" =>
                      results[s].data["devices"] = devices

C2_Witness ==
    \E s \in Sessions :
        /\ Reconciled(s)
        /\ Len(flows[s].appliances) = 2
        /\ flows[s].appliances[1].ip = IGNORED_IP_ADDRESS
        /\ Resolved(flows[s].appliances[2])
        /\ Len(flows[s].conf["devices"]) = 1

(***************************************************************************)
(* C3.  A submission at the unreachable_appliance stage whose address is   *)
(* not an IPv4 address, or whose probe finds nothing, redisplays the stage *)
(* for the same appliance with the address as the cause; the cursor and    *)
(* the other appliances are unchanged and no entry is created or updated.  *)
(***************************************************************************)
TypedAddress(e) == Get(e.input, "ip_address")

FailsValidation(e) ==
    /\ e.op = "unreachable_appliance"
    /\ Truthy(TypedAddress(e))
    /\ \/ ~IPv4Address(TypedAddress(e))
       \/ \E c \in 1..Len(e.calls) :
             e.calls[c].fn = "get_appliance_state" /\ ~e.calls[c].found

C3_FailedValidationRedisplays ==
    [][\A s \in Sessions :
          (event'.session = s /\ FailsValidation(event')) =>
              LET idx == flows[s].appliance_idx
              IN  /\ results'[s].type = "form"
                  /\ results'[s].step_id = "unreachable_appliance"
                  /\ results'[s].errors # NoErrors
                  /\ results'[s].description_placeholders.id
                        = flows[s].appliances[idx + 1].id
                  /\ results'[s].description_placeholders.cause
                        = TypedAddress(event')
                  /\ flows'[s].cause = TypedAddress(event')
                  /\ flows'[s].appliance_idx = idx
                  /\ Len(flows'[s].appliances) = Len(flows[s].appliances)
                  /\ \A j \in 1..Len(flows[s].appliances) :
                        j # idx + 1 =>
                            flows'[s].appliances[j] = flows[s].appliances[j]
                  /\ shown' = shown
                  /\ entries' = entries
                  /\ reloads' = reloads]_vars

C3_Witness ==
    \E s \in Sessions :
        /\ event.session = s
        /\ FailsValidation(event)
        /\ event.calls # <<>>
        /\ ErrorForm(s)
        /\ flows[s].appliance_idx = 1
        /\ flows[s].appliances[1].ip = "10.0.0.5"

(***************************************************************************)
(* C4.  The form redisplayed after a validation error carries every field  *)
(* value of the failed submission.  The code does not keep the advanced    *)
(* options flag of the user form, nor the address, token and key of the    *)
(* unreachable_appliance form.                                             *)
(***************************************************************************)
C4_RedisplayKeepsSubmittedValues ==
    \A s \in Sessions :
        (event.session = s /\ event.op \in {"user", "advanced_options",
                                            "unreachable_appliance"}
            /\ ErrorForm(s)) =>
            \A k \in DOMAIN event.input :
                /\ k \in DOMAIN results[s].defaults
                /\ results[s].defaults[k] = event.input[k]

(***************************************************************************)
(* C5.  As claimed: a flow that ends with a username of an existing entry  *)
(* has overwritten that entry in place and scheduled its reload, and ends  *)
(* with abort reauth_successful.  The user step aborts with                *)
(* single_instance_allowed as soon as any entry exists, and leaves it      *)
(* untouched.                                                              *)
(***************************************************************************)
SubmittedUsername(s, e) ==
    IF e.op = "user" THEN e.input["username"] ELSE flows[s].conf["username"]

\* The step of session s replaces the data of entry e and reloads it.
Overwrites(s, e) ==
    /\ Aborted(results'[s], "reauth_successful")
    /\ Len(entries') = Len(entries)
    /\ entries'[e].data = flows'[s].conf
    /\ entries'[e].unique_id = entries[e].unique_id
    /\ \A o \in DOMAIN entries : o # e => entries'[o] = entries[o]
    /\ reloads' = Append(reloads, entries[e].entry_id)

C6_IgnoreFlagIgnores ==
    [][\A s \in Sessions :
          (event'.session = s /\ event'.op = "unreachable_appliance"
              /\ event'.input["ignore_appliance"]) =>
              /\ flows'[s].appliances[flows[s].appliance_idx + 1].ip
                    = IGNORED_IP_ADDRESS
              /\ event'.calls = <<>>
              /\ ~ErrorResult(results'[s])]_vars

(***************************************************************************)
(* C7.  A submission with a blank (empty or missing) address leaves the    *)
(* record with the ignored address, with the ignore flag set or not; no    *)
(* probe is made and the cursor advances.                                  *)
(***************************************************************************)
C7_BlankAddressIsIgnored ==
    [][\A s \in Sessions :
          (event'.session = s /\ event'.op = "unreachable_appliance"
              /\ ~Truthy(TypedAddress(event'))) =>
              /\ flows'[s].appliances[flows[s].appliance_idx + 1].ip
                    = IGNORED_IP_ADDRESS
              /\ event'.calls = <<>>
              /\ ~ErrorResult(results'[s])
              /\ flows'[s].appliance_idx > flows[s].appliance_idx]_vars

C7_Witness ==
    \E s \in Sessions :
        /\ event.session = s
        /\ event.op = "unreachable_appliance"
        /\ "ip_address" \notin DOMAIN event.input
        /\ ~event.input["ignore_appliance"]
        /\ flows[s].appliance_idx = 1
        /\ flows[s].appliances[1].ip = IGNORED_IP_ADDRESS
        /\ results[s].type = "form"

(***************************************************************************)
(* C8.  When connect_to_cloud fails with CloudAuthenticationError the form *)
(* the user submitted is shown again with error invalid_auth and a cause   *)
(* made of the error's code and message; the flow does not go on to the    *)
(* unreachable_appliance stage or to _async_add_entry and no entry is      *)
(* created or updated.                                                     *)
(***************************************************************************)
AuthenticationFailed(e) ==
    \E c \in 1..Len(e.calls) :
        e.calls[c].fn = "connect_to_cloud" /\ e.calls[c].kind = "auth_error"

C8_AuthenticationErrorRedisplays ==
    [][\A s \in Sessions :
          (event'.session = s /\ AuthenticationFailed(event')) =>
              /\ event'.op \in {"user", "advanced_options"}
              /\ CurStep(s) = event'.op
              /\ results'[s].type = "form"
              /\ results'[s].step_id = event'.op
              /\ results'[s].errors = [base |-> "invalid_auth"]
              /\ results'[s].description_placeholders.cause
                    = "3101 - wrong password"
              /\ flows'[s].cause = "3101 - wrong password"
              /\ flows'[s].appliances = <<>>
              /\ shown' = shown
              /\ entries' = entries
              /\ reloads' = reloads]_vars

C8_Witness ==
    \E s \in Sessions :
        /\ event.session = s
        /\ event.op = "advanced_options"
        /\ AuthenticationFailed(event)
        /\ ErrorForm(s)
        /\ results[s].step_id = "advanced_options"

(***************************************************************************)
(* C9.  The steps presented to a session only move forward: user, then     *)
(* advanced_options, then unreachable_appliance, then a terminal outcome.  *)
(* Discovery runs from the user or the advanced options step only, a       *)
(* discovery that succeeds leaves both, and a session that has its         *)
(* terminal outcome does nothing more.                                     *)
(***************************************************************************)
Rank(r) ==
    CASE r.type = "none" -> 0
      [] r.type = "form" /\ r.step_id = "user" -> 1
      [] r.type = "form" /\ r.step_id = "advanced_options" -> 2
      [] r.type = "form" /\ r.step_id = "unreachable_appliance" -> 3
      [] OTHER -> 4

Connects(e) ==
    \E c \in 1..Len(e.calls) : e.calls[c].fn = "connect_to_cloud"

Discovers(e) ==
    \E c \in 1..Len(e.calls) : e.calls[c].fn = "find_appliances"

C9_StepsOnlyMoveForward ==
    [][\A s \in Sessions :
          /\ Rank(results'[s]) >= Rank(results[s])
          /\ Rank(results[s]) = 4 =>
                /\ event'.session # s
                /\ results'[s] = results[s]
                /\ flows'[s] = flows[s]
                /\ shown'[s] = shown[s]
          /\ (event'.session = s /\ Connects(event')) =>
                Rank(results[s]) \in {1, 2}
          /\ (event'.session = s /\ Discovers(event')) =>
                Rank(results'[s]) >= 3
          /\ found[s] # <<>> => found'[s] = found[s]]_vars

C9_Witness ==
    \E s \in Sessions :
        /\ results[s].type = "create_entry"
        /\ flows[s].advanced_options
        /\ Len(shown[s]) = 2

(***************************************************************************)
(* C10.  A step that does not take its session to _async_add_entry leaves  *)
(* the configuration entries, their data and the scheduled reloads as      *)
(* they were: errors, failed discoveries, failed probes and abandoning     *)
(* the session persist nothing.                                            *)
(***************************************************************************)
C10_NothingPersistedBeforeReconciliation ==
    [][\A s \in Sessions :
          (event'.session = s /\ ~ReconciledResult(results'[s])) =>
              /\ entries' = entries
              /\ reloads' = reloads]_vars

C10_Witness ==
    \E s \in Sessions :
        /\ results[s].type = "abandoned"
        /\ flows[s].cause = "10.0.0.5"
        /\ flows[s].appliance_idx = 1
        /\ entries = <<>>
        /\ reloads = <<>>

(***************************************************************************)
(* C11.  A submission at the advanced options step without appkey or       *)
(* without appid fails with invalid_appkey; one with both and a network    *)
(* range that is not an IPv4 network fails with invalid_ip_range and the   *)
(* range as the cause.  In both cases the collaborator is not called, the  *)
(* advanced options form is shown again, and the appliances, the cursor,   *)
(* the entries and the reloads stay as they were.                          *)
(***************************************************************************)
LacksAppKey(e) ==
    e.op = "advanced_options"
        /\ ("appkey" \notin DOMAIN e.input \/ "appid" \notin DOMAIN e.input)

BadRange(e) ==
    /\ e.op = "advanced_options"
    /\ "appkey" \in DOMAIN e.input /\ "appid" \in DOMAIN e.input
    /\ Truthy(Get(e.input, "network_range"))
    /\ ~IPv4Network(e.input["network_range"])

C11_AdvancedValidationErrors ==
    [][\A s \in Sessions :
          (event'.session = s /\ (LacksAppKey(event') \/ BadRange(event'))) =>
              /\ event'.calls = <<>>
              /\ results'[s].type = "form"
              /\ results'[s].step_id = "advanced_options"
              /\ results[s].step_id = "advanced_options"
              /\ results'[s].errors =
                    [base |-> IF LacksAppKey(event') THEN "invalid_appkey"
                              ELSE "invalid_ip_range"]
              /\ results'[s].description_placeholders.cause =
                    (IF LacksAppKey(event') THEN ""
                     ELSE event'.input["network_range"])
              /\ flows'[s].appliances = flows[s].appliances
              /\ flows'[s].appliance_idx = flows[s].appliance_idx
              /\ found' = found
              /\ shown' = shown
              /\ entries' = entries
              /\ reloads' = reloads]_vars

C11_Witness ==
    \E s \in Sessions :
        /\ event.session = s
        /\ BadRange(event)
        /\ results[s].type = "form"
        /\ results[s].errors = [base |-> "invalid_ip_range"]
        /\ flows[s].cause = "10.0.0.0/33"
        /\ flows[s].conf["appkey"] = "custom_key"

(***************************************************************************)
(* C12.  When a configuration entry exists, opening the user step and      *)
(* submitting the user form both end the flow with abort                   *)
(* single_instance_allowed: the collaborator is not called, nothing is     *)
(* discovered or presented, and the entries, their data and the scheduled  *)
(* reloads stay as they were.                                              *)
(***************************************************************************)
C12_SingleInstanceAborts ==
    [][\A s \in Sessions :
          (event'.session = s /\ event'.op \in {"start", "user"}
              /\ entries # <<>>) =>
              /\ Aborted(results'[s], "single_instance_allowed")
              /\ event'.calls = <<>>
              /\ flows'[s].appliances = flows[s].appliances
              /\ found' = found
              /\ shown' = shown
              /\ entries' = entries
              /\ reloads' = reloads]_vars

\* A session at the user form submits it after the other session's entry
\* was created.
C12_Witness ==
    \E s \in Sessions :
        /\ event.session = s
        /\ event.op = "user"
        /\ Aborted(results[s], "single_instance_allowed")
        /\ Len(entries) = 1
        /\ entries[1].unique_id = "u2"
        /\ event.input["username"] = "u2"
        /\ reloads = <<>>

(***************************************************************************)
(* C13.  A submission of the user form with the advanced options flag      *)
(* false and a mobile app of SUPPORTED_APPS, made while no entry exists,   *)
(* calls connect_to_cloud once, with the username and the password of the  *)
(* submission and the appkey and appid of the app's table entry, and       *)
(* find_appliances, when it is reached, with no networks; in whatever      *)
(* state earlier submissions of the session left the flow.                 *)
(***************************************************************************)
KnownProfile(e) ==
    /\ e.op = "user"
    /\ ~e.input["advanced_options"]
    /\ Get(e.input, "mobile_app") \in DOMAIN SUPPORTED_APPS

C13_UserDiscoveryArguments ==
    [][\A s \in Sessions :
          (event'.session = s /\ KnownProfile(event') /\ entries = <<>>) =>
              LET calls == event'.calls
                  app == SUPPORTED_APPS[event'.input["mobile_app"]]
              IN  /\ Len(calls) \in {1, 2}
                  /\ calls[1].fn = "connect_to_cloud"
                  /\ calls[1].account = event'.input["username"]
                  /\ calls[1].password = event'.input["password"]
                  /\ calls[1].appkey = app.appkey
                  /\ calls[1].appid = app.appid
                  /\ Len(calls) = 2 <=> calls[1].kind = "appliances"
                  /\ Len(calls) = 2 =>
                        /\ calls[2].fn = "find_appliances"
                        /\ calls[2].networks = <<>>]_vars

\* A submission for the second app whose discovery finds every appliance.
C13_Witness ==
    \E s \in Sessions :
        /\ event.session = s
        /\ KnownProfile(event)
        /\ event.input["mobile_app"] = "MideaAir"
        /\ event.input["username"] = "u2"
        /\ Len(event.calls) = 2
        /\ event.calls[1].appkey = "appkey_mideaair"
        /\ event.calls[1].account = "u2"
        /\ results[s].type = "create_entry"

(***************************************************************************)
(* C14.  The mode property and set_mode are inverse of each other on the   *)
(* numbers 1, 2, 3, 4, 6, 7 and the labels Set, Continuous, Smart, Dry,    *)
(* Purifier, Antimould: set_mode called with the label read for such a     *)
(* number passes that number to apply, and the label read for the number   *)
(* set_mode passes to apply for such a label is that label.  Every other   *)
(* number reads as Set and every other label stages 1.                     *)
(***************************************************************************)
KnownModes == {1, 2, 3, 4, 6, 7}

KnownLabels ==
    {MODE_SET, MODE_CONTINOUS, MODE_SMART, MODE_DRY, MODE_PURIFIER,
     MODE_ANTIMOULD}

\* The number the last call of set_mode passed to apply.
StagedMode(e) == e.calls[1].value

C14_ModeMappingIsBijection ==
    /\ mode(entity) \in KnownLabels
    /\ LET curr_mode == GetDefault(entity.state, "mode", 1)
       IN  IF curr_mode \in KnownModes
           THEN ModeNumber(mode(entity)) = curr_mode
           ELSE mode(entity) = MODE_SET
    /\ event.op = "set_mode" =>
          LET label == event.input["mode"]
          IN  /\ Len(event.calls) = 1
              /\ event.calls[1].fn = "apply"
              /\ event.calls[1].attribute = "mode"
              /\ StagedMode(event) \in KnownModes
              /\ IF label \in KnownLabels
                 THEN ModeLabel(StagedMode(event)) = label
                 ELSE StagedMode(event) = 1

\* Smart was set while the appliance reported mode 7, and the device has not
\* taken it over yet.
C14_Witness ==
    /\ event.op = "set_mode"
    /\ event.input["mode"] = MODE_SMART
    /\ StagedMode(event) = 3
    /\ GetDefault(entity.state, "mode", 1) = 7
    /\ mode(entity) = MODE_ANTIMOULD

(***************************************************************************)
(* C15.  When an advanced options submission reaches find_appliances, the  *)
(* networks passed are those of that submission: its network range, or     *)
(* none when the field was left blank.  The code stores a range only when  *)
(* one is given and never removes the one an earlier submission stored, so *)
(* a blank submission scans the earlier range.                             *)
(***************************************************************************)
SubmittedNetworks(e) ==
    IF Truthy(Get(e.input, "network_range"))
    THEN <<e.input["network_range"]>> ELSE <<>>

C15_NetworksOfTheSubmission ==
    [][\A s \in Sessions :
          (event'.session = s /\ event'.op = "advanced_options") =>
              \A c \in 1..Len(event'.calls) :
                  event'.calls[c].fn = "find_appliances" =>
                      event'.calls[c].networks = SubmittedNetworks(event')]_vars

(***************************************************************************)
(* C16.  An address typed at the unreachable_appliance stage gets past     *)
(* the cursor, and from there into the devices of the configuration, only  *)
(* in a submission in which it is an IPv4 address and get_appliance_state  *)
(* found the device at it.  So every appliance the stage was presented     *)
(* for and the cursor has passed is ignored or has a valid address and     *)
(* the state the probe found, and so has every such device of a            *)
(* configuration created or updated.                                       *)
(***************************************************************************)
Elements(seq) == {seq[i] : i \in 1..Len(seq)}

\* The token and key are those a successful probe reported.
Probed(token, key) ==
    \E p \in ProbeOutcomes : p.found /\ token = p.token /\ key = p.key

C16_ManualAddressesAreProbed ==
    [][\A s \in Sessions :
          /\ (event'.session = s /\ event'.op = "unreachable_appliance"
                /\ flows'[s].appliance_idx > flows[s].appliance_idx) =>
                LET a == flows'[s].appliances[flows[s].appliance_idx + 1]
                IN  a.ip # IGNORED_IP_ADDRESS =>
                        /\ a.ip = TypedAddress(event')
                        /\ IPv4Address(a.ip)
                        /\ event'.calls =
                              <<[fn |-> "get_appliance_state", ip |-> a.ip,
                                 found |-> TRUE]>>
          /\ \A j \in 1..Len(flows'[s].appliances) :
                LET a == flows'[s].appliances[j]
                IN  (j <= flows'[s].appliance_idx
                        /\ a.id \in Elements(shown'[s])) =>
                        \/ a.ip = IGNORED_IP_ADDRESS
                        \/ IPv4Address(a.ip) /\ Probed(a.token, a.key)
          /\ ReconciledResult(results'[s]) =>
                \A j \in 1..Len(flows'[s].conf["devices"]) :
                    LET d == flows'[s].conf["devices"][j]
                    IN  d.id \in Elements(shown'[s]) =>
                            /\ IPv4Address(d.ip_address)
                            /\ d.ip_address # IGNORED_IP_ADDRESS
                            /\ Probed(d.token, d.token_key)]_vars

\* The entry is created with two devices, both at an address the user typed.
C16_Witness ==
    \E s \in Sessions :
        /\ results[s].type = "create_entry"
        /\ shown[s] = <<1, 2>>
        /\ Len(flows[s].conf["devices"]) = 2
        /\ flows[s].conf["devices"][1].ip_address = "10.0.0.5"
        /\ flows[s].conf["devices"][1].token = "cloud_token"
        /\ event.calls = <<[fn |-> "get_appliance_state", ip |-> "10.0.0.5",
                            found |-> TRUE]>>

(***************************************************************************)
(* C17.  With two sessions interleaved there is at most one configuration  *)
(* entry in every state, and at most one session has created one: the      *)
(* session that comes to _async_add_entry second updates the entry of the  *)
(* first or aborts.  The code looks for an existing entry at the user step *)
(* and, in _async_add_entry, for an entry of the same username only: a     *)
(* session past the user step with another username creates a second       *)
(* entry.                                                                  *)
(***************************************************************************)
C17_AtMostOneEntry ==
    /\ Len(entries) <= 1
    /\ Cardinality({s \in Sessions : results[s].type = "create_entry"}) <= 1

(***************************************************************************)
(* C18.  The cursor _appliance_idx is -1 until a discovery finds an        *)
(* appliance without address.  Whenever the unreachable_appliance form is  *)
(* displayed the cursor is an index of the list of appliances and the form *)
(* is for the appliance under it.  While the form is displayed the cursor  *)
(* never decreases, a submission that succeeds increases it by at least    *)
(* one, and it never exceeds the length of the list: the stage is          *)
(* presented for at most as many appliances as the list has before         *)
(* _async_add_entry runs, which it does with the cursor at the end.        *)
(***************************************************************************)
AtUnreachable(r) == r.type = "form" /\ r.step_id = "unreachable_appliance"

Unaddressed(appliances) ==
    \E j \in 1..Len(appliances) : ~Truthy(appliances[j].ip)

CursorInRange(s) ==
    LET idx == flows[s].appliance_idx
        appliances == flows[s].appliances
    IN  /\ idx \in -1..Len(appliances)
        /\ idx # -1 <=> Unaddressed(found[s])
        /\ idx # -1 <=> shown[s] # <<>>
        /\ Len(shown[s]) <= Len(appliances)
        /\ AtUnreachable(results[s]) =>
              /\ 0 <= idx /\ idx < Len(appliances)
              /\ results[s].description_placeholders.id = appliances[idx + 1].id
              /\ shown[s][Len(shown[s])] = appliances[idx + 1].id
        /\ (Reconciled(s) /\ shown[s] # <<>>) => idx = Len(appliances)

CursorAdvances(s) ==
    /\ AtUnreachable(results[s]) =>
          flows'[s].appliance_idx >= flows[s].appliance_idx
    /\ (event'.session = s /\ event'.op = "unreachable_appliance") =>
          IF ErrorResult(results'[s])
          THEN flows'[s].appliance_idx = flows[s].appliance_idx
          ELSE /\ flows'[s].appliance_idx >= flows[s].appliance_idx + 1
               /\ \/ ReconciledResult(results'[s])
                  \/ Len(shown'[s]) = Len(shown[s]) + 1

C18_CursorWithinTheList ==
    [][\A s \in Sessions :
          /\ CursorInRange(s)
          /\ CursorInRange(s)'
          /\ CursorAdvances(s)]_vars

\* The stage is displayed for the second of two appliances, after a
\* submission for the first that succeeded.
C18_Witness ==
    \E s \in Sessions :
        /\ event.session = s
        /\ event.op = "unreachable_appliance"
        /\ AtUnreachable(results[s])
        /\ ~ErrorForm(s)
        /\ flows[s].appliance_idx = 1
        /\ Len(flows[s].appliances) = 2
        /\ shown[s] = <<1, 2>>

(***************************************************************************)
(* C19.  The username and the password of _conf are those of the last      *)
(* submission of the user form: a submission of the advanced options form  *)
(* or of the unreachable_appliance form leaves them as they are, whatever  *)
(* username and password it carries.  connect_to_cloud is always called    *)
(* with them, also on every retry at the advanced options step, and the    *)
(* entry created or updated holds them.                                    *)
(***************************************************************************)
SameCredentials(c, d) ==
    c["username"] = d["username"] /\ c["password"] = d["password"]

C19_CredentialsOfTheUserStep ==
    [][\A s \in Sessions :
          event'.session = s =>
              /\ (event'.op = "user" /\ entries = <<>>) =>
                    SameCredentials(flows'[s].conf, event'.input)
              /\ event'.op \in {"advanced_options", "unreachable_appliance"} =>
                    SameCredentials(flows'[s].conf, flows[s].conf)
              /\ \A c \in 1..Len(event'.calls) :
                    event'.calls[c].fn = "connect_to_cloud" =>
                        /\ event'.calls[c].account = flows'[s].conf["username"]
                        /\ event'.calls[c].password = flows'[s].conf["password"]
              /\ results'[s].type = "create_entry" =>
                    /\ SameCredentials(results'[s].data, flows'[s].conf)
                    /\ SameCredentials(entries'[Len(entries')].data,
                                       flows'[s].conf)
              /\ Aborted(results'[s], "reauth_successful") =>
                    \E e \in DOMAIN entries' :
                        /\ reloads' = Append(reloads, entries'[e].entry_id)
                        /\ entries'[e].data = flows'[s].conf
                        /\ SameCredentials(entries'[e].data, flows[s].conf)
      ]_vars

\* A submission of the advanced options page that carries another username
\* and password than the user form did, and creates the entry.
C19_Witness ==
    \E s \in Sessions :
        /\ event.session = s
        /\ event.op = "advanced_options"
        /\ event.input["username"] = "u3"
        /\ event.input["password"] = "p3"
        /\ Len(event.calls) = 2
        /\ event.calls[1].account = "u2"
        /\ event.calls[1].password = "p1"
        /\ results[s].type = "create_entry"
        /\ results[s].data["username"] = "u2"

(***************************************************************************)
(* C20.  Every label of available_modes, passed to set_mode, stages a      *)
(* number that the mode property reads as the same label.  The list holds  *)
(* Fan when supports["mode"] is 4; set_mode has no number for Fan and      *)
(* stages 1, which reads as Set.                                           *)
(***************************************************************************)
C20_AvailableModesRoundTrip ==
    (event.op = "set_mode"
        /\ event.input["mode"] \in Elements(available_modes(entity))) =>
        ModeLabel(StagedMode(event)) = event.input["mode"]

=============================================================================
